---- MODULE Spec2Model ----
(***************************************************************************)
(* A model of the ArgParser of src/src/lib.rs: the parameter registry      *)
(* built by the add_* builders, the parse pass over an argument vector,   *)
(* and the accessors.                                                      *)
(*                                                                         *)
(* Strings are sequences of one-character strings, so that starts_with,    *)
(* find, split_at and the character scan of a short cluster are computed   *)
(* as the code computes them.  An Rc<RefCell<T>> is an index into an arena *)
(* of cells (bools for Rc<RefCell<bool>>, strs for Rc<RefCell<String>>):   *)
(* two map entries share a cell exactly when they hold the same index.     *)
(*                                                                         *)
(* HashMap lookups go through Borrow<char> / Borrow<str>; a char is hashed *)
(* as a char and a str as a str, so a char lookup finds Short keys and a   *)
(* str lookup finds Long keys.                                             *)
(***************************************************************************)
EXTENDS Integers, Sequences, FiniteSets, TLC

VARIABLES
    params,     \* ArgParser.params: Param -> Value
    bools,      \* arena of the Rc<RefCell<bool>> cells (flag values, found indicators)
    strs,       \* arena of the Rc<RefCell<String>> cells (option and setting values)
    invalid,    \* ArgParser.invalid
    garbage,    \* ArgParser.garbage
    args,       \* ArgParser.args (the positional arguments)
    argv,       \* the argument vector handed to parse
    pos,        \* the position of parse's iterator in argv (next index to yield)
    pc          \* "build" | "parse" | "done"

vars == <<params, bools, strs, invalid, garbage, args, argv, pos, pc>>

\* The longest argument vector handed to parse, counted after the program name.
MaxArgs == 3

----------------------------------------------------------------------------
\* Param (lib.rs 11-14)
Short(ch) == <<"Short", <<ch>>>>
Long(s) == <<"Long", s>>

\* Value (lib.rs 66-77), Rhs::new (lib.rs 55-62)
FlagValue(cell) ==
    [kind |-> "Flag", value |-> cell, found |-> 0, occurrences |-> 0]

NewOpt(cell, fcell) ==
    [kind |-> "Opt", value |-> cell, found |-> fcell, occurrences |-> 0]

NewSetting(cell, fcell) ==
    [kind |-> "Setting", value |-> cell, found |-> fcell, occurrences |-> 0]

\* The parser as one value, for the operators that transform it.
Parser ==
    [params |-> params, bools |-> bools, strs |-> strs,
     invalid |-> invalid, args |-> args]

----------------------------------------------------------------------------
\* String operations of the standard library, as used by parse.

\* str::starts_with
StartsWith(s, p) ==
    /\ Len(s) >= Len(p)
    /\ SubSeq(s, 1, Len(p)) = p

\* str::find(char): the index of the first occurrence, 0 when there is none
Find(s, c) ==
    IF \E i \in 1..Len(s) : s[i] = c
    THEN CHOOSE i \in 1..Len(s) : s[i] = c /\ \A j \in 1..(i - 1) : s[j] # c
    ELSE 0

\* &s[n..] on a string whose first n characters are ASCII
From(s, n) == SubSeq(s, n + 1, Len(s))

\* HashMap::get / get_mut: the kind of the entry under key k, "None" without one
KindOf(prm, k) == IF k \in DOMAIN prm THEN prm[k].kind ELSE "None"

\* Iterator::skip(1) followed by collecting: what is left of argv from index n on
RestOf(av, n) == SubSeq(av, n, Len(av))

----------------------------------------------------------------------------
\* Accessors

\* Option<String>
None == <<"None">>
Some(s) == <<"Some", s>>

\* ArgParser::count (lib.rs 310-318)
Count(k) ==
    IF KindOf(params, k) \in {"Flag", "Opt"} THEN params[k].occurrences ELSE 0

\* ArgParser::found (lib.rs 321-330)
Found(k) ==
    CASE KindOf(params, k) = "Flag" -> bools[params[k].value]
      [] KindOf(params, k) \in {"Opt", "Setting"} -> bools[params[k].found]
      [] OTHER -> FALSE

\* ArgParser::get_opt (lib.rs 356-365)
GetOpt(k) ==
    IF KindOf(params, k) = "Opt" /\ bools[params[k].found]
    THEN Some(strs[params[k].value])
    ELSE None

\* ArgParser::get_setting (lib.rs 369-378)
GetSetting(k) ==
    IF KindOf(params, k) = "Setting" /\ bools[params[k].found]
    THEN Some(strs[params[k].value])
    ELSE None

----------------------------------------------------------------------------
\* The builders.  Each call allocates its cells at the end of the arenas.

\* The inputs of the builders.
FlagAliases == { << <<"a">>, <<"a", "l">> >> }
OptNames == { << <<"f">>, <<"f", "o">> >> }
SettingNames == { <<"o", "f">> }
Defaults == { <<>>, <<"d">> }

\* The key add_flag gives an alias (lib.rs 133-139); {} for the empty alias
FlagKeys(flag) ==
    IF Len(flag) = 1 THEN {Short(flag[1])}
    ELSE IF flag # <<>> THEN {Long(flag)}
    ELSE {}

\* The keys add_opt / add_opt_default insert (lib.rs 159-164)
OptKeys(short, long) ==
    (IF short # <<>> THEN {Short(short[1])} ELSE {})
        \cup (IF long # <<>> THEN {Long(long)} ELSE {})

\* HashMap::insert of one value under each key of keys
Insert(prm, keys, v) ==
    [k \in DOMAIN prm \cup keys |-> IF k \in keys THEN v ELSE prm[k]]

\* The builders are called in the build phase, with keys not registered yet.
CanRegister(keys) ==
    /\ pc = "build"
    /\ keys # {}
    /\ keys \cap DOMAIN params = {}

\* ArgParser::add_flag (lib.rs 130-142)
AddFlag(flags) ==
    LET value == Len(bools) + 1
        keys == UNION {FlagKeys(flags[i]) : i \in 1..Len(flags)}
    IN  /\ CanRegister(keys)
        /\ bools' = Append(bools, FALSE)
        /\ params' = Insert(params, keys, FlagValue(value))
        /\ UNCHANGED <<strs, invalid, garbage, args, argv, pos, pc>>

\* A variant of AddOpt that gives the long key cells of its own.
AddOptOwnCells(short, long) ==
    LET value == Len(strs) + 1
        found == Len(bools) + 1
        shorts == IF short # <<>> THEN {Short(short[1])} ELSE {}
        longs == IF long # <<>> THEN {Long(long)} ELSE {}
    IN  /\ CanRegister(OptKeys(short, long))
        /\ strs' = strs \o <<<<>>, <<>>>>
        /\ bools' = bools \o <<FALSE, FALSE>>
        /\ params' = Insert(Insert(params, shorts, NewOpt(value, found)),
                            longs, NewOpt(value + 1, found + 1))
        /\ UNCHANGED <<invalid, garbage, args, argv, pos, pc>>

\* ArgParser::add_opt (lib.rs 156-166)
AddOpt(short, long) ==
    LET value == Len(strs) + 1
        found == Len(bools) + 1
    IN  /\ CanRegister(OptKeys(short, long))
        /\ strs' = Append(strs, <<>>)
        /\ bools' = Append(bools, FALSE)
        /\ params' = Insert(params, OptKeys(short, long), NewOpt(value, found))
        /\ UNCHANGED <<invalid, garbage, args, argv, pos, pc>>

\* ArgParser::add_opt_default (lib.rs 168-178)
AddOptDefault(short, long, default) ==
    LET value == Len(strs) + 1
        found == Len(bools) + 1
    IN  /\ CanRegister(OptKeys(short, long))
        /\ strs' = Append(strs, default)
        /\ bools' = Append(bools, FALSE)
        /\ params' = Insert(params, OptKeys(short, long), NewOpt(value, found))
        /\ UNCHANGED <<invalid, garbage, args, argv, pos, pc>>

\* ArgParser::add_setting (lib.rs 192-199)
AddSetting(setting) ==
    LET value == Len(strs) + 1
        found == Len(bools) + 1
    IN  /\ CanRegister(IF setting # <<>> THEN {Long(setting)} ELSE {})
        /\ strs' = Append(strs, <<>>)
        /\ bools' = Append(bools, FALSE)
        /\ params' = Insert(params, {Long(setting)}, NewSetting(value, found))
        /\ UNCHANGED <<invalid, garbage, args, argv, pos, pc>>

\* ArgParser::add_setting_default (lib.rs 201-208)
AddSettingDefault(setting, default) ==
    LET value == Len(strs) + 1
        found == Len(bools) + 1
    IN  /\ CanRegister(IF setting # <<>> THEN {Long(setting)} ELSE {})
        /\ strs' = Append(strs, default)
        /\ bools' = Append(bools, FALSE)
        /\ params' = Insert(params, {Long(setting)}, NewSetting(value, found))
        /\ UNCHANGED <<invalid, garbage, args, argv, pos, pc>>

----------------------------------------------------------------------------
\* parse (lib.rs 213-307), one loop iteration at a time.  The operators below
\* transform the parser p = [params, bools, strs, invalid, args].

\* A variant of PushInvalid that records a key once.
PushInvalidOnce(p, k) ==
    IF k \in {p.invalid[i] : i \in 1..Len(p.invalid)}
    THEN p
    ELSE [p EXCEPT !.invalid = Append(@, k)]

\* self.invalid.push(key) (lib.rs 238, 250, 276, 277, 300)
PushInvalid(p, k) == [p EXCEPT !.invalid = Append(@, k)]

\* A variant of AssignOpt that pushes the value without clearing the cell.
AssignOptNoClear(p, k, rhs) ==
    LET v == p.params[k]
    IN  [p EXCEPT !.params[k].occurrences =
                      IF p.strs[v.value] = <<>> THEN 1 ELSE @ + 1,
                  !.strs[v.value] = @ \o rhs,
                  !.bools[v.found] = TRUE]

\* The Opt arm of `--name=value` (lib.rs 228-237)
AssignOpt(p, k, rhs) ==
    LET v == p.params[k]
    IN  [p EXCEPT !.params[k].occurrences =
                      IF p.strs[v.value] = <<>> THEN 1 ELSE @ + 1,
                  !.strs[v.value] = rhs,
                  !.bools[v.found] = TRUE]

\* A variant of AssignSetting that leaves the found indicator alone.
AssignSettingNoFound(p, k, rhs) ==
    LET v == p.params[k]
    IN  [p EXCEPT !.params[k].occurrences =
                      IF p.strs[v.value] = <<>> THEN 1 ELSE @ + 1,
                  !.strs[v.value] = rhs]

\* The Setting arm of `name=value` (lib.rs 290-299)
AssignSetting(p, k, rhs) ==
    LET v == p.params[k]
    IN  [p EXCEPT !.params[k].occurrences =
                      IF p.strs[v.value] = <<>> THEN 1 ELSE @ + 1,
                  !.strs[v.value] = rhs,
                  !.bools[v.found] = TRUE]

\* `--name=value` (lib.rs 224-239): arg is the token without its dashes and
\* i the index of its first `=`
LongAssign(p, arg, i) ==
    LET lhs == SubSeq(arg, 1, i - 1)
        rhs == From(arg, i)
    IN  IF KindOf(p.params, Long(lhs)) = "Opt"
        THEN AssignOpt(p, Long(lhs), rhs)
        ELSE PushInvalid(p, Long(lhs))

\* A variant of LongBare whose Opt arm leaves the counter alone.
LongBareNoCount(p, arg) ==
    LET k == Long(arg)
    IN  CASE KindOf(p.params, k) = "Flag" ->
                [p EXCEPT !.bools[p.params[k].value] = TRUE,
                          !.params[k].occurrences = @ + 1]
          [] KindOf(p.params, k) = "Opt" ->
                [p EXCEPT !.bools[p.params[k].found] = TRUE]
          [] OTHER -> PushInvalid(p, k)

\* A variant of LongBare whose Flag arm counts on every key of the flag.
LongBareAllKeys(p, arg) ==
    LET k == Long(arg)
    IN  CASE KindOf(p.params, k) = "Flag" ->
                [p EXCEPT !.bools[p.params[k].value] = TRUE,
                          !.params = [k2 \in DOMAIN @ |->
                              IF @[k2].kind = "Flag" /\ @[k2].value = @[k].value
                              THEN [@[k2] EXCEPT !.occurrences = @ + 1]
                              ELSE @[k2]]]
          [] KindOf(p.params, k) = "Opt" ->
                [p EXCEPT !.params[k].occurrences = @ + 1,
                          !.bools[p.params[k].found] = TRUE]
          [] OTHER -> PushInvalid(p, k)

\* `--name` (lib.rs 241-251): arg is the token without its dashes
LongBare(p, arg) ==
    LET k == Long(arg)
    IN  CASE KindOf(p.params, k) = "Flag" ->
                [p EXCEPT !.bools[p.params[k].value] = TRUE,
                          !.params[k].occurrences = @ + 1]
          [] KindOf(p.params, k) = "Opt" ->
                [p EXCEPT !.params[k].occurrences = @ + 1,
                          !.bools[p.params[k].found] = TRUE]
          [] OTHER -> PushInvalid(p, k)

\* A variant of ShortOpt that always draws the value from the iterator.
ShortOptNextOnly(p, k, rest, next) ==
    LET v == p.params[k]
    IN  IF next # <<>>
        THEN [p |-> [p EXCEPT !.strs[v.value] = Head(next),
                              !.bools[v.found] = TRUE],
              took |-> TRUE]
        ELSE [p |-> [p EXCEPT !.strs[v.value] = <<>>], took |-> FALSE]

\* A variant of ShortOpt that clears found when no value is left to take.
ShortOptClearsFound(p, k, rest, next) ==
    LET v == p.params[k]
    IN  IF rest # <<>>
        THEN [p |-> [p EXCEPT !.strs[v.value] = rest, !.bools[v.found] = TRUE],
              took |-> FALSE]
        ELSE IF next # <<>>
        THEN [p |-> [p EXCEPT !.strs[v.value] = Head(next),
                              !.bools[v.found] = TRUE],
              took |-> TRUE]
        ELSE [p |-> [p EXCEPT !.strs[v.value] = <<>>, !.bools[v.found] = FALSE],
              took |-> FALSE]

\* The Opt arm of the cluster scan (lib.rs 261-275): rest is what is left of
\* the cluster, next what is left of the argument iterator.  took says that
\* args.next() yielded a token.
ShortOpt(p, k, rest, next) ==
    LET v == p.params[k]
    IN  IF rest # <<>>
        THEN [p |-> [p EXCEPT !.strs[v.value] = rest, !.bools[v.found] = TRUE],
              took |-> FALSE]
        ELSE IF next # <<>>
        THEN [p |-> [p EXCEPT !.strs[v.value] = Head(next),
                              !.bools[v.found] = TRUE],
              took |-> TRUE]
        ELSE [p |-> [p EXCEPT !.strs[v.value] = <<>>], took |-> FALSE]

\* A variant of ShortCluster in which an unregistered character ends the scan.
RECURSIVE ShortClusterStop(_, _, _, _)
ShortClusterStop(p, chars, i, next) ==
    IF i > Len(chars) THEN [p |-> p, took |-> FALSE]
    ELSE LET k == Short(chars[i])
         IN  CASE KindOf(p.params, k) = "Flag" ->
                     ShortClusterStop([p EXCEPT !.bools[p.params[k].value] = TRUE,
                                                !.params[k].occurrences = @ + 1],
                                      chars, i + 1, next)
               [] KindOf(p.params, k) = "Opt" ->
                     ShortOpt(p, k, From(chars, i), next)
               [] OTHER ->
                     [p |-> PushInvalid(p, k), took |-> FALSE]

\* The scan of a short cluster from its i-th character (lib.rs 255-279)
RECURSIVE ShortCluster(_, _, _, _)
ShortCluster(p, chars, i, next) ==
    IF i > Len(chars) THEN [p |-> p, took |-> FALSE]
    ELSE LET k == Short(chars[i])
         IN  CASE KindOf(p.params, k) = "Flag" ->
                     ShortCluster([p EXCEPT !.bools[p.params[k].value] = TRUE,
                                            !.params[k].occurrences = @ + 1],
                                  chars, i + 1, next)
               [] KindOf(p.params, k) = "Opt" ->
                     ShortOpt(p, k, From(chars, i), next)
               [] OTHER ->
                     ShortCluster(PushInvalid(p, k), chars, i + 1, next)

\* A variant of KeyValue that also assigns to an Option.
KeyValueOpt(p, arg, i) ==
    LET lhs == SubSeq(arg, 1, i - 1)
        rhs == From(arg, i)
    IN  IF KindOf(p.params, Long(lhs)) = "Setting"
        THEN AssignSetting(p, Long(lhs), rhs)
        ELSE IF KindOf(p.params, Long(lhs)) = "Opt"
        THEN AssignOpt(p, Long(lhs), rhs)
        ELSE PushInvalid(p, Long(lhs))

\* `name=value` with no leading dash (lib.rs 286-302)
KeyValue(p, arg, i) ==
    LET lhs == SubSeq(arg, 1, i - 1)
        rhs == From(arg, i)
    IN  IF KindOf(p.params, Long(lhs)) = "Setting"
        THEN AssignSetting(p, Long(lhs), rhs)
        ELSE PushInvalid(p, Long(lhs))

\* A variant of ExtendArgs that leaves the loop without collecting the rest.
ExtendArgsNone(p, rest) == p

\* self.args.extend(args) (lib.rs 221, 283)
ExtendArgs(p, rest) == [p EXCEPT !.args = @ \o rest]

\* A variant of AfterCluster in which the scan reads the next token without
\* taking it from the main loop.
AfterClusterPeek(n, took) == n + 1

\* A variant of AfterCluster in which a cluster that drew no value leaves the
\* iterator where it was.
AfterClusterStay(n, took) == IF took THEN n + 2 ELSE n

\* The position of the iterator after a cluster: the scan draws the value of a
\* short option from the iterator of the main loop (lib.rs 214, 267)
AfterCluster(n, took) == IF took THEN n + 2 ELSE n + 1

\* One iteration of the main loop on av[n] (lib.rs 215-306): the parser after
\* it, the iterator's position after it, and whether it left the loop.
Iteration(p, av, n) ==
    LET arg == av[n]
        rest == RestOf(av, n + 1)
    IN  IF StartsWith(arg, <<"-", "-">>)
        THEN LET a == From(arg, 2)
             IN  IF a = <<>>
                 THEN [p |-> ExtendArgs(p, rest), pos |-> Len(av) + 1, brk |-> TRUE]
                 ELSE IF Find(a, "=") # 0
                 THEN [p |-> LongAssign(p, a, Find(a, "=")), pos |-> n + 1,
                       brk |-> FALSE]
                 ELSE [p |-> LongBare(p, a), pos |-> n + 1, brk |-> FALSE]
        ELSE IF StartsWith(arg, <<"-">>) /\ arg # <<"-">>
        THEN LET r == ShortCluster(p, From(arg, 1), 1, rest)
             IN  [p |-> r.p, pos |-> AfterCluster(n, r.took), brk |-> FALSE]
        ELSE IF Find(arg, "=") # 0
        THEN IF arg = <<>>
             THEN [p |-> ExtendArgs(p, rest), pos |-> Len(av) + 1, brk |-> TRUE]
             ELSE [p |-> KeyValue(p, arg, Find(arg, "=")), pos |-> n + 1,
                   brk |-> FALSE]
        ELSE [p |-> [p EXCEPT !.args = Append(@, arg)], pos |-> n + 1,
              brk |-> FALSE]

----------------------------------------------------------------------------
\* The argument vectors handed to parse: a program name and up to MaxArgs tokens.

SeqsUpTo(S, n) == UNION {[1..m -> S] : m \in 0..n}

ProgNames == { <<"p">> }

Inputs(pool) ==
    {<<>>} \cup {<<prog>> \o s : prog \in ProgNames, s \in SeqsUpTo(pool, MaxArgs)}

\* The tokens of the argument vectors.
TokStop == <<"-", "-">>
TokFlag == <<"-", "a">>
TokOpt == <<"-", "f">>
TokOptGlued == <<"-", "f", "a">>
TokCluster == <<"-", "a", "z", "f", "a">>
TokLongOpt == <<"-", "-", "f", "o", "=", "v">>
TokUnknown == <<"-", "-", "z", "z">>
TokSetting == <<"o", "f", "=", "v">>
TokPlain == <<"v">>

TokLongEmpty == <<"-", "-", "f", "o", "=">>
TokLongEq == <<"-", "-", "f", "o", "=", "=", "v">>
TokLongBare == <<"-", "-", "f", "o">>
TokLongFlag == <<"-", "-", "a", "l">>
TokUnknownAssign == <<"-", "-", "z", "z", "=", "v">>
TokSettingEq == <<"o", "f", "=", "=", "v">>

Tokens ==
    {TokStop, TokFlag, TokOpt, TokOptGlued, TokCluster, TokLongOpt, TokUnknown,
     TokSetting, TokPlain}

\* The call of parse: args.skip(1) (lib.rs 214)
StartParse(pool) ==
    /\ pc = "build"
    /\ argv' \in Inputs(pool)
    /\ pos' = 2
    /\ pc' = "parse"
    /\ UNCHANGED <<params, bools, strs, invalid, garbage, args>>

\* One iteration of `while let Some(arg) = args.next()` (lib.rs 215-306)
ParseStep ==
    /\ pc = "parse"
    /\ pos <= Len(argv)
    /\ LET r == Iteration(Parser, argv, pos)
       IN  /\ params' = r.p.params
           /\ bools' = r.p.bools
           /\ strs' = r.p.strs
           /\ invalid' = r.p.invalid
           /\ args' = r.p.args
           /\ pos' = r.pos
           /\ pc' = IF r.brk THEN "done" ELSE "parse"
    /\ UNCHANGED <<garbage, argv>>

\* args.next() yields None: the loop and parse end (lib.rs 215, 307)
ParseEnd ==
    /\ pc = "parse"
    /\ pos > Len(argv)
    /\ pc' = "done"
    /\ UNCHANGED <<params, bools, strs, invalid, garbage, args, argv, pos>>

\* The mutable accessors.  A handle is the index of the cell it borrows, 0 for
\* the cell of garbage.

\* A variant of FlagHandle that hands out the found cell of an Option or a
\* Setting.
FlagHandleFound(k) ==
    IF KindOf(params, k) = "Flag" THEN params[k].value
    ELSE IF KindOf(params, k) \in {"Opt", "Setting"} THEN params[k].found
    ELSE 0

\* ArgParser::flag (lib.rs 334-341)
FlagHandle(k) == IF KindOf(params, k) = "Flag" THEN params[k].value ELSE 0

\* ArgParser::opt (lib.rs 345-352)
OptHandle(k) == IF KindOf(params, k) = "Opt" THEN params[k].value ELSE 0

\* The keys and values the callers use with the mutable accessors.
HandleKeys ==
    {Short("a"), Long(<<"a", "l">>), Short("f"), Long(<<"f", "o">>)}
HandleStrings == { <<>>, <<"w">> }

\* `*parser.flag(k) = b`, outside of parse
WriteFlag(k, b) ==
    /\ pc \in {"build", "done"}
    /\ IF FlagHandle(k) # 0
       THEN /\ bools' = [bools EXCEPT ![FlagHandle(k)] = b]
            /\ UNCHANGED garbage
       ELSE /\ garbage' = [garbage EXCEPT !.b = b]
            /\ UNCHANGED bools
    /\ UNCHANGED <<params, strs, invalid, args, argv, pos, pc>>

\* `*parser.opt(k) = s`, outside of parse
WriteOpt(k, s) ==
    /\ pc \in {"build", "done"}
    /\ IF OptHandle(k) # 0
       THEN /\ strs' = [strs EXCEPT ![OptHandle(k)] = s]
            /\ UNCHANGED garbage
       ELSE /\ garbage' = [garbage EXCEPT !.s = s]
            /\ UNCHANGED strs
    /\ UNCHANGED <<params, bools, invalid, args, argv, pos, pc>>

\* Result<(), String>
Ok == <<"Ok">>
Err(e) == <<"Err", e>>

\* The string literals of found_invalid (lib.rs 387, 390, 398, 403, 409)
StrInvalidParameter == <<"I", "n", "v", "a", "l", "i", "d", " ", "p", "a", "r", "a", "m", "e", "t", "e", "r">>
StrInvalidParameters == <<"I", "n", "v", "a", "l", "i", "d", " ", "p", "a", "r", "a", "m", "e", "t", "e", "r", "s">>
StrShortOpen == <<" ", "'", "-">>
StrLongOpen == <<" ", "'", "-", "-">>
StrAnd == <<" ", "a", "n", "d">>

\* The text found_invalid appends for one entry (lib.rs 396-407)
RenderParam(k) ==
    IF k[1] = "Short"
    THEN StrShortOpen \o k[2] \o <<"'">>
    ELSE StrLongOpen \o k[2] \o <<"'">>

\* A variant of RenderLoop that writes " and" before the last entry only.
RECURSIVE RenderLoopAndLast(_, _, _)
RenderLoopAndLast(inv, i, and) ==
    IF i > Len(inv) THEN <<>>
    ELSE RenderParam(inv[i])
             \o (IF and /\ i + 1 = Len(inv) THEN StrAnd ELSE <<>>)
             \o RenderLoopAndLast(inv, i + 1, and)

\* The loop of found_invalid from the i-th entry on (lib.rs 394-411)
RECURSIVE RenderLoop(_, _, _)
RenderLoop(inv, i, and) ==
    IF i > Len(inv) THEN <<>>
    ELSE RenderParam(inv[i])
             \o (IF and /\ i < Len(inv) THEN StrAnd ELSE <<>>)
             \o RenderLoop(inv, i + 1, and)

\* ArgParser::found_invalid (lib.rs 380-414)
FoundInvalid ==
    IF invalid = <<>> THEN Ok
    ELSE LET and == Len(invalid) # 1
             output == IF Len(invalid) = 1 THEN StrInvalidParameter
                       ELSE StrInvalidParameters
         IN  Err(output \o RenderLoop(invalid, 1, and) \o <<"\n">>)

----------------------------------------------------------------------------
Init ==
    /\ params = <<>>
    /\ bools = <<>>
    /\ strs = <<>>
    /\ invalid = <<>>
    /\ garbage = [b |-> FALSE, s |-> <<>>]
    /\ args = <<>>
    /\ argv = <<>>
    /\ pos = 1
    /\ pc = "build"

\* The builder calls, with the defaults drawn from dflts.
Register(dflts) ==
    \/ \E flags \in FlagAliases : AddFlag(flags)
    \/ \E o \in OptNames : AddOpt(o[1], o[2])
    \/ \E o \in OptNames, d \in dflts : AddOptDefault(o[1], o[2], d)
    \/ \E s \in SettingNames : AddSetting(s)
    \/ \E s \in SettingNames, d \in dflts : AddSettingDefault(s, d)

Next ==
    \/ Register(Defaults)
    \/ StartParse(Tokens)
    \/ ParseStep
    \/ ParseEnd

Spec == Init /\ [][Next]_vars

\* The long and key=value forms.
TokensLong ==
    {TokLongOpt, TokLongEmpty, TokLongEq, TokLongBare, TokUnknownAssign,
     TokSetting, TokSettingEq, TokPlain}

NextLong ==
    \/ Register(Defaults)
    \/ StartParse(TokensLong)
    \/ ParseStep
    \/ ParseEnd

SpecLong == Init /\ [][NextLong]_vars

\* Options and Settings registered with no default or with the empty default,
\* and argument vectors in which every token is classified by the main loop.
TokensCount == {TokLongOpt, TokLongEmpty, TokLongEq, TokSetting, TokPlain}

NextCount ==
    \/ Register({<<>>})
    \/ StartParse(TokensCount)
    \/ ParseStep
    \/ ParseEnd

SpecCount == Init /\ [][NextCount]_vars

\* The mutable accessors, used before and after parse.
TokensAlias == {TokOpt, TokLongOpt, TokFlag, TokLongFlag}

NextHandles ==
    \/ Register(Defaults)
    \/ \E k \in HandleKeys, b \in BOOLEAN : WriteFlag(k, b)
    \/ \E k \in HandleKeys, s \in HandleStrings : WriteOpt(k, s)
    \/ StartParse(TokensAlias)
    \/ ParseStep
    \/ ParseEnd

SpecHandles == Init /\ [][NextHandles]_vars

\* Argument vectors whose first element is drawn from progs.
InputsNamed(progs, pool) ==
    {<<>>} \cup {<<prog>> \o s : prog \in progs, s \in SeqsUpTo(pool, MaxArgs)}

\* A variant of StartParseNamed without the skip(1).
StartParseNoSkip(progs, pool) ==
    /\ pc = "build"
    /\ argv' \in InputsNamed(progs, pool)
    /\ pos' = 1
    /\ pc' = "parse"
    /\ UNCHANGED <<params, bools, strs, invalid, garbage, args>>

\* The call of parse with any first element: args.skip(1) (lib.rs 214)
StartParseNamed(progs, pool) ==
    /\ pc = "build"
    /\ argv' \in InputsNamed(progs, pool)
    /\ pos' = 2
    /\ pc' = "parse"
    /\ UNCHANGED <<params, bools, strs, invalid, garbage, args>>

\* Tokens without parameter syntax, among others, after a first element that
\* may itself look like a parameter.
TokDash == <<"-">>
TokEmpty == <<>>
TokensPlain == {TokPlain, TokDash, TokEmpty, TokFlag, TokSetting}
ProgNamesAny == {<<"p">>, TokFlag, TokStop, TokSetting}

NextPlain ==
    \/ Register(Defaults)
    \/ StartParseNamed(ProgNamesAny, TokensPlain)
    \/ ParseStep
    \/ ParseEnd

SpecPlain == Init /\ [][NextPlain]_vars

\* The mutable accessors with every kind of key: a Flag, an Option, a Setting
\* and a key that was never registered.
HandleKeysAny == HandleKeys \cup {Long(<<"o", "f">>), Short("z")}
TokensGarbage == {TokFlag, TokOptGlued, TokSetting}

NextGarbage ==
    \/ Register(Defaults)
    \/ \E k \in HandleKeysAny, b \in BOOLEAN : WriteFlag(k, b)
    \/ \E k \in HandleKeysAny, s \in HandleStrings : WriteOpt(k, s)
    \/ StartParse(TokensGarbage)
    \/ ParseStep
    \/ ParseEnd

SpecGarbage == Init /\ [][NextGarbage]_vars

\* Short-form uses of an Option, glued and with a separate value.
TokensShort == {TokOpt, TokOptGlued, TokFlag, TokPlain}

NextShort ==
    \/ Register(Defaults)
    \/ StartParse(TokensShort)
    \/ ParseStep
    \/ ParseEnd

SpecShort == Init /\ [][NextShort]_vars

\* Clusters with an unregistered character before a Flag, before an Option
\* with a glued value and before an Option that takes the next token.
TokUnknownFlag == <<"-", "z", "a">>
TokUnknownOpt == <<"-", "z", "f">>
TokensCluster == {TokCluster, TokUnknownFlag, TokUnknownOpt, TokPlain}

NextCluster ==
    \/ Register(Defaults)
    \/ StartParse(TokensCluster)
    \/ ParseStep
    \/ ParseEnd

SpecCluster == Init /\ [][NextCluster]_vars

\* Registered names used with the syntax of another kind.
TokFlagAssign == <<"-", "-", "a", "l", "=", "v">>
TokSettingLong == <<"-", "-", "o", "f", "=", "v">>
TokSettingBare == <<"-", "-", "o", "f">>
TokFlagKeyValue == <<"a", "l", "=", "v">>
TokOptKeyValue == <<"f", "o", "=", "v">>
TokensKind ==
    {TokFlagAssign, TokSettingLong, TokSettingBare, TokFlagKeyValue,
     TokOptKeyValue, TokPlain}

NextKind ==
    \/ Register(Defaults)
    \/ StartParse(TokensKind)
    \/ ParseStep
    \/ ParseEnd

SpecKind == Init /\ [][NextKind]_vars

\* One token of each class of the main loop; parse is one sequential call, so
\* once it has started each of its steps is eventually taken.
TokensTerm == {TokStop, TokOpt, TokFlag, TokLongOpt, TokSetting, TokPlain}

NextTerm ==
    \/ Register({<<>>})
    \/ StartParse(TokensTerm)
    \/ ParseStep
    \/ ParseEnd

SpecTerm ==
    Init /\ [][NextTerm]_vars /\ WF_vars(ParseStep) /\ WF_vars(ParseEnd)

\* A second call of parse on the same parser: parse takes &mut self and
\* resets nothing (lib.rs 213-215).  The vector of the second call starts
\* with a name of progs, and a parser is called again only with such a name
\* not yet used, which bounds the number of calls.
ParseAgain(progs, pool) ==
    /\ pc = "done"
    /\ IF argv = <<>> THEN TRUE ELSE argv[1] \notin progs
    /\ argv' \in InputsNamed(progs, pool)
    /\ pos' = 2
    /\ pc' = "parse"
    /\ UNCHANGED <<params, bools, strs, invalid, garbage, args>>

ProgNamesAgain == { <<"q">> }
TokensAgain == {TokFlag, TokOpt, TokSetting}

\* Two calls of parse, and the caller's `*parser.flag(k) = false`.
NextAgain ==
    \/ Register({<<>>})
    \/ \E k \in HandleKeys : WriteFlag(k, FALSE)
    \/ StartParse(TokensAgain)
    \/ ParseAgain(ProgNamesAgain, TokensAgain)
    \/ ParseStep
    \/ ParseEnd

SpecAgain == Init /\ [][NextAgain]_vars

----------------------------------------------------------------------------
\* Vocabulary of the properties.

Range(s) == {s[i] : i \in 1..Len(s)}

\* parse is about to classify the token argv[pos]
AtToken == pc = "parse" /\ pos <= Len(argv)

\* The token is a short cluster: a dash, not two, and more than the dash.
IsCluster(tok) ==
    /\ StartsWith(tok, <<"-">>)
    /\ ~StartsWith(tok, <<"-", "-">>)
    /\ tok # <<"-">>

\* The index in chars of the first character registered as an Option, or 0.
FirstOpt(chars) ==
    IF \E i \in 1..Len(chars) : KindOf(params, Short(chars[i])) = "Opt"
    THEN CHOOSE i \in 1..Len(chars) :
             /\ KindOf(params, Short(chars[i])) = "Opt"
             /\ \A j \in 1..(i - 1) : KindOf(params, Short(chars[j])) # "Opt"
    ELSE 0

\* The characters of a cluster before its first Option (all, without one).
Scanned(chars) ==
    IF FirstOpt(chars) = 0 THEN chars ELSE SubSeq(chars, 1, FirstOpt(chars) - 1)

\* The Short keys of the characters of s that are neither Flag nor Option.
UnknownShorts(s) ==
    LET Unknown(c) == KindOf(params, Short(c)) \notin {"Flag", "Opt"}
        t == SelectSeq(s, Unknown)
    IN  [i \in 1..Len(t) |-> Short(t[i])]

\* The keys that denote the same parameter as k: they hold k's value cell.
Aliases(k) ==
    {k2 \in DOMAIN params :
        params[k2].kind = params[k].kind /\ params[k2].value = params[k].value}

\* The token refers to the key k by its syntax.
Names(tok, k) ==
    IF k[1] = "Long"
    THEN \/ StartsWith(tok, <<"-", "-">> \o k[2])
         \/ StartsWith(tok, k[2] \o <<"=">>)
    ELSE IsCluster(tok) /\ k[2][1] \in Range(tok)

\* What the read accessor of k's kind returns.
Get(k) == IF KindOf(params, k) = "Setting" THEN GetSetting(k) ELSE GetOpt(k)

----------------------------------------------------------------------------
\* C1: the default of an Option registered with add_opt_default, or of a
\* Setting registered with add_setting_default, is returned by get_opt /
\* get_setting as Some(default) right after the registration, and a parse
\* step on a token that names none of the parameter's keys leaves what the
\* read accessor returns unchanged.  (The registration steps are those with a
\* non-empty default: a step of add_opt_default with the empty default is
\* also a step of add_opt.)
C1_DefaultVisible ==
    [][/\ \A o \in OptNames, d \in Defaults \ {<<>>} :
              AddOptDefault(o[1], o[2], d)
                  => \A k \in OptKeys(o[1], o[2]) : GetOpt(k)' = Some(d)
       /\ \A n \in SettingNames, d \in Defaults \ {<<>>} :
              AddSettingDefault(n, d) => GetSetting(Long(n))' = Some(d)
       /\ \A k \in DOMAIN params :
              (/\ AtToken
               /\ params[k].kind \in {"Opt", "Setting"}
               /\ \A k2 \in Aliases(k) : ~Names(argv[pos], k2))
                  => Get(k)' = Get(k)]_vars

----------------------------------------------------------------------------
\* C2: when parse reaches a token that is exactly `--`, the pass ends there:
\* the tokens after it are appended to args verbatim and in order, no flag,
\* value, found indicator, occurrence counter or invalid entry changes in that
\* step, and nothing changes once the pass has ended.
C2_StopMarker ==
    [][/\ (AtToken /\ argv[pos] = <<"-", "-">>)
              => /\ args' = args \o SubSeq(argv, pos + 1, Len(argv))
                 /\ pc' = "done"
                 /\ UNCHANGED <<params, bools, strs, invalid>>
       /\ pc = "done" => UNCHANGED <<params, bools, strs, invalid, args>>]_vars

\* `-a` and `--fo=v` after the stop marker are positional, and neither the
\* flag a nor the option fo was touched.
C2_Witness ==
    /\ pc = "done"
    /\ argv = <<<<"p">>, TokStop, TokFlag, TokLongOpt>>
    /\ args = <<TokFlag, TokLongOpt>>
    /\ KindOf(params, Short("a")) = "Flag" /\ ~Found(Short("a"))
    /\ KindOf(params, Long(<<"f", "o">>)) = "Opt"
    /\ GetOpt(Long(<<"f", "o">>)) = None
    /\ invalid = <<>>

\* C3: in a short cluster the characters before the first Option are handled
\* left to right, every Flag among them is set; the first Option that has
\* characters after it takes them all as its value with found = true and ends
\* the cluster: no character after it is recorded as invalid, a Flag among
\* them that was not scanned before keeps its value and its counter, and no
\* further token is consumed.
C3_ShortCluster ==
    [][(AtToken /\ IsCluster(argv[pos])) =>
          \A chars \in {From(argv[pos], 1)} : \A j \in {FirstOpt(chars)} :
              /\ \A c \in Range(Scanned(chars)) :
                     KindOf(params, Short(c)) = "Flag" => Found(Short(c))'
              /\ (j # 0 /\ j < Len(chars)) =>
                     /\ GetOpt(Short(chars[j]))'
                            = Some(SubSeq(chars, j + 1, Len(chars)))
                     /\ Found(Short(chars[j]))'
                     /\ pos' = pos + 1
                     /\ invalid' = invalid \o UnknownShorts(Scanned(chars))
                     /\ \A c \in Range(SubSeq(chars, j + 1, Len(chars)))
                                 \ Range(Scanned(chars)) :
                            KindOf(params, Short(c)) = "Flag"
                                => /\ Found(Short(c))' = Found(Short(c))
                                   /\ Count(Short(c))' = Count(Short(c))]_vars

\* `-fa` gave the option f the value "a" and left the flag a false.
C3_Witness ==
    /\ pc = "done"
    /\ argv = <<<<"p">>, TokOptGlued>>
    /\ GetOpt(Short("f")) = Some(<<"a">>)
    /\ KindOf(params, Short("a")) = "Flag" /\ ~Found(Short("a"))
    /\ invalid = <<>>

\* The cells a cluster whose scanned part is s may write besides those of its
\* Option: the value cells of the Flags in s.
FlagCells(s) ==
    {params[Short(c)].value : c \in {x \in Range(s) : KindOf(params, Short(x)) = "Flag"}}

\* C4: when a short Option is the last character of its cluster and a next
\* token exists, that whole token becomes the option's value with found =
\* true and the iterator of the main loop moves past it, so it is never
\* classified: args is unchanged, invalid grows only by the unknown characters
\* of the cluster itself, the pass goes on, and no cell or counter changes
\* besides the option's and those of the Flags of the cluster.
C4_NextTokenIsValue ==
    [][(/\ AtToken
        /\ IsCluster(argv[pos])
        /\ FirstOpt(From(argv[pos], 1)) = Len(argv[pos]) - 1
        /\ pos < Len(argv)) =>
          \A chars \in {From(argv[pos], 1)} : \A k \in {Short(chars[Len(chars)])} :
              /\ GetOpt(k)' = Some(argv[pos + 1])
              /\ Found(k)'
              /\ pos' = pos + 2
              /\ pc' = "parse"
              /\ args' = args
              /\ invalid' = invalid \o UnknownShorts(Scanned(chars))
              /\ \A c \in 1..Len(strs) :
                     c # params[k].value => strs'[c] = strs[c]
              /\ \A c \in 1..Len(bools) :
                     c \notin {params[k].found} \cup FlagCells(Scanned(chars))
                         => bools'[c] = bools[c]
              /\ \A k2 \in DOMAIN params :
                     (k2[1] = "Long" \/ k2[2][1] \notin Range(Scanned(chars)))
                         => params'[k2] = params[k2]]_vars

\* `-f --` made `--` the value of f: the pass went on and `v` is positional.
C4_Witness ==
    /\ pc = "done"
    /\ argv = <<<<"p">>, TokOpt, TokStop, TokFlag>>
    /\ GetOpt(Short("f")) = Some(TokStop)
    /\ Found(Short("a"))
    /\ args = <<>>
    /\ invalid = <<>>

\* C5: when a short Option is the last character of the last token, parse does
\* not fail, the option's value becomes the empty string and its found
\* indicator is true: found(key) and get_opt(key) = Some("").
C5_MissingValue ==
    [][(/\ AtToken
        /\ IsCluster(argv[pos])
        /\ FirstOpt(From(argv[pos], 1)) = Len(argv[pos]) - 1
        /\ pos = Len(argv)) =>
          \A k \in {Short(argv[pos][Len(argv[pos])])} :
              /\ pc' = "parse"
              /\ Found(k)'
              /\ GetOpt(k)' = Some(<<>>)]_vars

\* The name a long-form or key=value token refers to: the text before the
\* first `=`, or the whole text without one.
NameOf(a) == IF Find(a, "=") = 0 THEN a ELSE SubSeq(a, 1, Find(a, "=") - 1)

\* The token refers to a long name that is not registered.
UnknownLong(tok) ==
    IF StartsWith(tok, <<"-", "-">>)
    THEN tok # <<"-", "-">> /\ KindOf(params, Long(NameOf(From(tok, 2)))) = "None"
    ELSE /\ ~StartsWith(tok, <<"-">>)
         /\ Find(tok, "=") # 0
         /\ KindOf(params, Long(NameOf(tok))) = "None"

\* The key such a token is recorded under.
UnknownLongKey(tok) ==
    IF StartsWith(tok, <<"-", "-">>)
    THEN Long(NameOf(From(tok, 2)))
    ELSE Long(NameOf(tok))

\* C10: an unknown parameter never stops the pass.  A long-form or key=value
\* token with an unregistered name appends exactly that Long key to invalid
\* and changes nothing else, and the token after it is then classified and
\* applied exactly as it would be without it; a short cluster appends the
\* Short key of each unregistered character it scans, in order; nothing is
\* ever deduplicated, and the pass goes on.
C10_UnknownRecorded ==
    [][AtToken =>
          LET tok == argv[pos]
          IN  /\ UnknownLong(tok) =>
                     /\ invalid' = Append(invalid, UnknownLongKey(tok))
                     /\ UNCHANGED <<params, bools, strs, args>>
                     /\ pos' = pos + 1
                     /\ pc' = "parse"
                     /\ pos < Len(argv) =>
                            LET with == Iteration(Parser', argv, pos + 1)
                                without == Iteration(Parser, argv, pos + 1)
                            IN  /\ with.pos = without.pos
                                /\ with.brk = without.brk
                                /\ with.p.params = without.p.params
                                /\ with.p.bools = without.p.bools
                                /\ with.p.strs = without.p.strs
                                /\ with.p.args = without.p.args
                                /\ with.p.invalid
                                       = invalid' \o SubSeq(without.p.invalid,
                                                            Len(invalid) + 1,
                                                            Len(without.p.invalid))
              /\ IsCluster(tok) =>
                     /\ invalid' = invalid \o UnknownShorts(Scanned(From(tok, 1)))
                     /\ pc' = "parse"]_vars

\* The same unknown long name used twice, with an unknown short character in
\* between: three entries in encounter order, and the flag a of the cluster
\* was still set.
C10_Witness ==
    /\ pc = "done"
    /\ argv = <<<<"p">>, TokUnknown, TokCluster, TokUnknown>>
    /\ invalid = <<Long(<<"z", "z">>), Short("z"), Long(<<"z", "z">>)>>
    /\ Found(Short("a"))
    /\ GetOpt(Short("f")) = Some(<<"a">>)

----------------------------------------------------------------------------
\* C6: for a token `--name=value` whose name, the text between `--` and the
\* first `=`, is registered as an Option, parse overwrites the option's value
\* with everything after the first `=` (later `=` included, the empty string
\* too) and sets found = true: get_opt(name) then returns Some(value).
C6_LongAssign ==
    [][(/\ AtToken
        /\ StartsWith(argv[pos], <<"-", "-">>)
        /\ Find(From(argv[pos], 2), "=") # 0
        /\ KindOf(params, Long(NameOf(From(argv[pos], 2)))) = "Opt") =>
          \A a \in {From(argv[pos], 2)} : \A i \in {Find(a, "=")} :
              /\ GetOpt(Long(SubSeq(a, 1, i - 1)))' = Some(SubSeq(a, i + 1, Len(a)))
              /\ Found(Long(SubSeq(a, 1, i - 1)))']_vars

\* `--fo=`, `--fo=v`, `--fo==v`: the value is what follows the first `=` of
\* the last of them.
C6_Witness ==
    /\ pc = "done"
    /\ argv = <<<<"p">>, TokLongEmpty, TokLongOpt, TokLongEq>>
    /\ GetOpt(Long(<<"f", "o">>)) = Some(<<"=", "v">>)

\* C7: for a token with no leading dash that contains `=` and whose name, the
\* text before the first `=`, is registered as a Setting, parse overwrites the
\* setting's value with the text after the first `=` and sets found = true:
\* found(name) holds, get_setting(name) returns Some(value), and the token is
\* not appended to args.
C7_SettingAssign ==
    [][(/\ AtToken
        /\ ~StartsWith(argv[pos], <<"-">>)
        /\ Find(argv[pos], "=") # 0
        /\ KindOf(params, Long(NameOf(argv[pos]))) = "Setting") =>
          \A a \in {argv[pos]} : \A i \in {Find(a, "=")} :
              /\ GetSetting(Long(SubSeq(a, 1, i - 1)))'
                     = Some(SubSeq(a, i + 1, Len(a)))
              /\ Found(Long(SubSeq(a, 1, i - 1)))'
              /\ args' = args]_vars

\* `of=v`, then `of==v`: the setting holds "=v" and nothing is positional.
C7_Witness ==
    /\ pc = "done"
    /\ argv = <<<<"p">>, TokSetting, TokSettingEq>>
    /\ GetSetting(Long(<<"o", "f">>)) = Some(<<"=", "v">>)
    /\ Found(Long(<<"o", "f">>))
    /\ args = <<>>

\* The token is `--name=v` for some v.
IsAssignOf(tok, name) ==
    /\ StartsWith(tok, <<"-", "-">>)
    /\ Find(From(tok, 2), "=") # 0
    /\ NameOf(From(tok, 2)) = name

\* The indices of the tokens `--name=v` of argv.
UsesOf(name) == {i \in 2..Len(argv) : IsAssignOf(argv[i], name)}

\* C8: for an Option registered with no default or an empty default, after
\* parsing a sequence that contains n >= 1 tokens `--name=v`, count(name) is n
\* and the value is the last v supplied.  (Under SpecCount every Option has
\* an empty initial value and every token is classified by the main loop.)
C8_CountAccumulates ==
    \A o \in OptNames :
        (/\ pc = "done"
         /\ KindOf(params, Long(o[2])) = "Opt"
         /\ UsesOf(o[2]) # {}) =>
            LET last == CHOOSE i \in UsesOf(o[2]) : \A j \in UsesOf(o[2]) : j <= i
                a == From(argv[last], 2)
            IN  /\ Count(Long(o[2])) = Cardinality(UsesOf(o[2]))
                /\ GetOpt(Long(o[2])) = Some(SubSeq(a, Find(a, "=") + 1, Len(a)))

\* C9: in every state, a parameter registered under a short and a long key
\* has one value and one found indicator: found and get_opt agree on the two
\* keys of an Option, found agrees on the aliases of a Flag, whatever was
\* parsed or written through the flag() and opt() handles.
C9_AliasesShare ==
    /\ \A o \in OptNames :
           OptKeys(o[1], o[2]) \subseteq DOMAIN params =>
               \A k1, k2 \in OptKeys(o[1], o[2]) :
                   /\ Found(k1) = Found(k2)
                   /\ GetOpt(k1) = GetOpt(k2)
    /\ \A flags \in FlagAliases :
           LET keys == UNION {FlagKeys(flags[i]) : i \in 1..Len(flags)}
           IN  keys \subseteq DOMAIN params =>
                   \A k1, k2 \in keys : Found(k1) = Found(k2)

\* The option was found through `-f` only and its value written through a
\* handle; the flag was set through `-a` only and cleared through a handle:
\* both changes are visible through the long keys.
C9_Witness ==
    /\ pc = "done"
    /\ argv = <<<<"p">>, TokOpt, TokFlag, TokFlag>>
    /\ Count(Long(<<"f", "o">>)) = 0
    /\ GetOpt(Long(<<"f", "o">>)) = Some(<<"w">>)
    /\ GetOpt(Short("f")) = Some(<<"w">>)
    /\ KindOf(params, Long(<<"a", "l">>)) = "Flag"
    /\ Count(Short("a")) = 1
    /\ Count(Long(<<"a", "l">>)) = 0
    /\ ~Found(Long(<<"a", "l">>))
    /\ garbage = [b |-> FALSE, s |-> <<>>]

----------------------------------------------------------------------------
\* A Short key renders as `-` and its character, a Long key as `--` and its
\* string, between quotes.
Quoted(k) ==
    <<"'">> \o (IF k[1] = "Short" THEN <<"-">> ELSE <<"-", "-">>) \o k[2] \o <<"'">>

\* The quoted keys of inv from the i-th on, with ` and ` between neighbours.
RECURSIVE JoinAnd(_, _)
JoinAnd(inv, i) ==
    IF i = Len(inv) THEN Quoted(inv[i])
    ELSE Quoted(inv[i]) \o <<" ", "a", "n", "d", " ">> \o JoinAnd(inv, i + 1)

\* C11: found_invalid renders the invalid list exactly: Ok(()) for the empty
\* list; for one entry `Invalid parameter '<r>'` and a newline; for more
\* `Invalid parameters '<r1>' and '<r2>' and ... '<rN>'` and a newline, with
\* ` and ` between every two neighbours and none after the last, in list order.
C11_Rendering ==
    /\ invalid = <<>> => FoundInvalid = Ok
    /\ Len(invalid) = 1 =>
           FoundInvalid = Err(<<"I", "n", "v", "a", "l", "i", "d", " ", "p", "a", "r", "a", "m", "e", "t", "e", "r", " ">> \o Quoted(invalid[1]) \o <<"\n">>)
    /\ Len(invalid) > 1 =>
           FoundInvalid = Err(<<"I", "n", "v", "a", "l", "i", "d", " ", "p", "a", "r", "a", "m", "e", "t", "e", "r", "s", " ">> \o JoinAnd(invalid, 1) \o <<"\n">>)
    /\ invalid = <<Short("z"), Long(<<"z", "z">>)>> =>
           FoundInvalid = Err(<<"I", "n", "v", "a", "l", "i", "d", " ", "p", "a", "r", "a", "m", "e", "t", "e", "r", "s", " ", "'", "-", "z", "'", " ", "a", "n", "d", " ", "'", "-", "-", "z", "z", "'", "\n">>)

\* Three entries, short and long: `Invalid parameters '--zz' and '-z' and
\* '--zz'` and a newline.
C11_Witness ==
    /\ pc = "done"
    /\ invalid = <<Long(<<"z", "z">>), Short("z"), Long(<<"z", "z">>)>>
    /\ FoundInvalid = Err(<<"I", "n", "v", "a", "l", "i", "d", " ", "p", "a", "r", "a", "m", "e", "t", "e", "r", "s", " ", "'", "-", "-", "z", "z", "'", " ", "a", "n", "d", " ", "'", "-", "z", "'", " ", "a", "n", "d", " ", "'", "-", "-", "z", "z", "'", "\n">>)

----------------------------------------------------------------------------
\* The token has no parameter syntax: no leading dash unless it is the lone
\* `-`, and no `=`.
Plain(tok) ==
    /\ ~StartsWith(tok, <<"-">>) \/ tok = <<"-">>
    /\ Find(tok, "=") = 0

\* C12: for an argument vector whose tokens after the program name have no
\* parameter syntax, every step of the pass leaves params, the cells and
\* invalid unchanged, and when parse ends args is the vector without its
\* first element, in order, and invalid is empty.
C12_RoundTrip ==
    [][(\A i \in 2..Len(argv) : Plain(argv[i])) =>
          /\ AtToken => /\ UNCHANGED <<params, bools, strs, invalid>>
                        /\ args' = Append(args, argv[pos])
          /\ (pc = "parse" /\ pc' = "done") =>
                 /\ args' = SubSeq(argv, 2, Len(argv))
                 /\ invalid' = <<>>]_vars

\* The first element `-a` is skipped although a is a Flag; `v`, `-` and the
\* empty token are positional.
C12_Witness ==
    /\ pc = "done"
    /\ argv = <<TokFlag, TokPlain, TokDash, TokEmpty>>
    /\ args = <<TokPlain, TokDash, TokEmpty>>
    /\ KindOf(params, Short("a")) = "Flag"
    /\ ~Found(Short("a"))
    /\ Count(Short("a")) = 0
    /\ invalid = <<>>

----------------------------------------------------------------------------
\* What the accessors report for every registered key.
Observed ==
    [k \in DOMAIN params |->
        <<KindOf(params, k), Found(k), Count(k), GetOpt(k), GetSetting(k)>>]

\* C13: a write through flag(key) for a key that is not a Flag, or through
\* opt(key) for a key that is not an Option (a Setting key and an unknown
\* key included), leaves the value, found state and counter of every
\* registered parameter, args and invalid unchanged.
C13_ScratchWrite ==
    [][(\/ \E k \in HandleKeysAny, b \in BOOLEAN :
              KindOf(params, k) # "Flag" /\ WriteFlag(k, b)
        \/ \E k \in HandleKeysAny, w \in HandleStrings :
              KindOf(params, k) # "Opt" /\ WriteOpt(k, w)) =>
           /\ Observed' = Observed
           /\ UNCHANGED <<params, bools, strs, args, invalid>>]_vars

\* Both scratch cells were written after a pass that found the Flag and the
\* Setting and left the cell of the Option on its default.
C13_Witness ==
    /\ pc = "done"
    /\ garbage = [b |-> TRUE, s |-> <<"w">>]
    /\ argv = << <<"p">>, TokFlag, TokSetting >>
    /\ KindOf(params, Long(<<"o", "f">>)) = "Setting"
    /\ GetSetting(Long(<<"o", "f">>)) = Some(<<"v">>)
    /\ KindOf(params, Short("f")) = "Opt"
    /\ strs[params[Short("f")].value] = <<"d">>
    /\ ~Found(Short("f"))
    /\ Found(Short("a"))
    /\ invalid = <<>>

----------------------------------------------------------------------------
\* The number of tokens from index i on that use the Option -ch in short
\* form as the first character of a cluster: `-chREST` is one use, `-ch`
\* followed by a token is one use and takes that token as its value.
RECURSIVE ShortUses(_, _, _)
ShortUses(av, i, ch) ==
    IF i > Len(av) THEN 0
    ELSE IF av[i] = <<"-", ch>>
         THEN (IF i < Len(av) THEN 1 ELSE 0) + ShortUses(av, i + 2, ch)
    ELSE IF StartsWith(av[i], <<"-", ch>>) THEN 1 + ShortUses(av, i + 1, ch)
    ELSE ShortUses(av, i + 1, ch)

\* C14: count(key) of a registered Option includes its short-form uses:
\* after a pass over an argument vector in which -x was used n times, glued
\* to its value or with the value in the next token, count('x') is n.
C14_ShortCounted ==
    \A o \in OptNames :
        (pc = "done" /\ KindOf(params, Short(o[1][1])) = "Opt") =>
            Count(Short(o[1][1])) = ShortUses(argv, 2, o[1][1])

----------------------------------------------------------------------------
\* The token is `--name` with a name and no `=`.
IsLongBare(tok) ==
    /\ StartsWith(tok, <<"-", "-">>)
    /\ tok # <<"-", "-">>
    /\ Find(From(tok, 2), "=") = 0

\* C15: a token `--name` without `=` whose name is an Option adds exactly 1
\* to the counter of that key and sets found, leaves the stored value, args
\* and invalid as they were, and does not consume the token after it: the
\* next token is classified on its own.
C15_LongBareOpt ==
    [][(/\ AtToken
        /\ IsLongBare(argv[pos])
        /\ KindOf(params, Long(From(argv[pos], 2))) = "Opt") =>
          \A k \in {Long(From(argv[pos], 2))} :
              /\ Count(k)' = Count(k) + 1
              /\ Found(k)'
              /\ strs' = strs
              /\ pos' = pos + 1
              /\ UNCHANGED <<args, invalid>>]_vars

\* `--fo` twice, then `v`: the counter is 2, the value is still the default
\* and `v` is positional.
C15_Witness ==
    /\ pc = "done"
    /\ argv = << <<"p">>, TokLongBare, TokLongBare, TokPlain >>
    /\ Count(Long(<<"f", "o">>)) = 2
    /\ GetOpt(Long(<<"f", "o">>)) = Some(<<"d">>)
    /\ args = <<TokPlain>>
    /\ invalid = <<>>

----------------------------------------------------------------------------
\* The number of positions of s that hold c.
Occurrences(s, c) == Cardinality({i \in 1..Len(s) : s[i] = c})

\* C16: an unregistered character in a short cluster appends its Short key
\* to invalid and does not end the cluster: the scan goes on with the next
\* character, so a Flag after it is set and counted, and an Option after it
\* still takes its value, glued or from the next token.
C16_UnknownInCluster ==
    [][(AtToken /\ IsCluster(argv[pos])) =>
          \A chars \in {From(argv[pos], 1)} : \A j \in {FirstOpt(chars)} :
          \A s \in {Scanned(chars)} :
          \A i \in 1..Len(s) :
              KindOf(params, Short(s[i])) = "None" =>
                  /\ invalid' = invalid \o UnknownShorts(s)
                  /\ Occurrences(UnknownShorts(s), Short(s[i])) = Occurrences(s, s[i])
                  /\ \A m \in (i + 1)..Len(s) :
                         KindOf(params, Short(s[m])) = "Flag" =>
                             /\ Found(Short(s[m]))'
                             /\ Count(Short(s[m]))'
                                    = Count(Short(s[m])) + Occurrences(s, s[m])
                  /\ (j # 0 /\ j < Len(chars)) =>
                         /\ GetOpt(Short(chars[j]))'
                                = Some(SubSeq(chars, j + 1, Len(chars)))
                         /\ pos' = pos + 1
                  /\ (j # 0 /\ j = Len(chars) /\ pos < Len(argv)) =>
                         /\ GetOpt(Short(chars[j]))' = Some(argv[pos + 1])
                         /\ pos' = pos + 2]_vars

\* `-za`, then `-zf v`: z is recorded twice, the flag a after it is set and
\* the option f after it took the token `v`.
C16_Witness ==
    /\ pc = "done"
    /\ argv = << <<"p">>, TokUnknownFlag, TokUnknownOpt, TokPlain >>
    /\ invalid = <<Short("z"), Short("z")>>
    /\ KindOf(params, Short("a")) = "Flag"
    /\ Found(Short("a"))
    /\ Count(Short("a")) = 1
    /\ GetOpt(Short("f")) = Some(<<"v">>)
    /\ args = <<>>

----------------------------------------------------------------------------
\* The token names a registered parameter with the syntax of another kind:
\* `--name=value` for a Flag or a Setting, `--name` for a Setting,
\* `name=value` for a Flag or an Option.
WrongKind(tok) ==
    IF StartsWith(tok, <<"-", "-">>)
    THEN /\ tok # <<"-", "-">>
         /\ IF Find(From(tok, 2), "=") # 0
            THEN KindOf(params, Long(NameOf(From(tok, 2)))) \in {"Flag", "Setting"}
            ELSE KindOf(params, Long(From(tok, 2))) = "Setting"
    ELSE /\ ~StartsWith(tok, <<"-">>)
         /\ Find(tok, "=") # 0
         /\ KindOf(params, Long(NameOf(tok))) \in {"Flag", "Opt"}

\* C17: a registered name used with the syntax of another kind is reported
\* as invalid: the step appends Long(name) to invalid, changes no parameter
\* state and does not append the token to args.
C17_WrongKind ==
    [][(AtToken /\ WrongKind(argv[pos])) =>
          \A name \in {IF StartsWith(argv[pos], <<"-", "-">>)
                       THEN NameOf(From(argv[pos], 2))
                       ELSE NameOf(argv[pos])} :
              /\ invalid' = Append(invalid, Long(name))
              /\ UNCHANGED <<params, bools, strs, args>>
              /\ pos' = pos + 1]_vars

\* `--al=v`, `fo=v`, `--of` with al a Flag, fo an Option and of a Setting:
\* three entries in invalid and nothing found.
C17_Witness ==
    /\ pc = "done"
    /\ argv = << <<"p">>, TokFlagAssign, TokOptKeyValue, TokSettingBare >>
    /\ KindOf(params, Long(<<"a", "l">>)) = "Flag"
    /\ KindOf(params, Long(<<"f", "o">>)) = "Opt"
    /\ KindOf(params, Long(<<"o", "f">>)) = "Setting"
    /\ invalid = <<Long(<<"a", "l">>), Long(<<"f", "o">>), Long(<<"o", "f">>)>>
    /\ \A k \in DOMAIN params : ~Found(k) /\ Count(k) = 0
    /\ args = <<>>

----------------------------------------------------------------------------
\* C18: the counters are kept per key.  A token `--long` of a Flag adds 1 to
\* the counter of the long key, a short cluster adds to the counter of the
\* short key of a Flag the number of times its character was scanned; either
\* sets the boolean the aliases share, so found holds for every alias, and
\* leaves the counter of every other alias as it was.
C18_CountersPerKey ==
    [][AtToken =>
          /\ (IsLongBare(argv[pos])
                 /\ KindOf(params, Long(From(argv[pos], 2))) = "Flag") =>
                \A k \in {Long(From(argv[pos], 2))} :
                    /\ Count(k)' = Count(k) + 1
                    /\ \A k2 \in Aliases(k) :
                           /\ Found(k2)'
                           /\ k2 # k => Count(k2)' = Count(k2)
          /\ IsCluster(argv[pos]) =>
                \A s \in {Scanned(From(argv[pos], 1))} :
                \A c \in Range(s) :
                    KindOf(params, Short(c)) = "Flag" =>
                        /\ Count(Short(c))' = Count(Short(c)) + Occurrences(s, c)
                        /\ \A k2 \in Aliases(Short(c)) :
                               /\ Found(k2)'
                               /\ k2 # Short(c) => Count(k2)' = Count(k2)]_vars

\* `-a`, then `--al` twice: the flag is found under both keys, the short key
\* counts 1 and the long key 2.
C18_Witness ==
    /\ pc = "done"
    /\ argv = << <<"p">>, TokFlag, TokLongFlag, TokLongFlag >>
    /\ Found(Short("a")) /\ Found(Long(<<"a", "l">>))
    /\ Count(Short("a")) = 1
    /\ Count(Long(<<"a", "l">>)) = 2

----------------------------------------------------------------------------
\* s is an initial part of t.
IsPrefix(s, t) == Len(s) <= Len(t) /\ SubSeq(t, 1, Len(s)) = s

\* C19: parse ends on every finite argument vector.  Each step of the loop
\* moves the iterator forward and never past the end, and accounts for the
\* tokens it passes exactly once: the stop marker together with every token
\* after it, which all go to args; a cluster together with the token its
\* Option consumed as a value; or one token of any other class.  args and
\* invalid only grow by appending, and a pass that has started reaches its
\* end.
C19_TerminatesAccounted ==
    /\ [][pc = "parse" =>
             /\ pos' >= pos
             /\ AtToken => pos' <= Len(argv) + 1
             /\ pc' = "parse" => pos' > pos
             /\ IsPrefix(args, args') /\ IsPrefix(invalid, invalid')
             /\ AtToken =>
                    IF argv[pos] = <<"-", "-">>
                    THEN /\ pc' = "done"
                         /\ pos' = Len(argv) + 1
                         /\ args' = args \o SubSeq(argv, pos + 1, Len(argv))
                         /\ invalid' = invalid
                    ELSE IF /\ IsCluster(argv[pos])
                            /\ FirstOpt(From(argv[pos], 1)) = Len(argv[pos]) - 1
                            /\ pos < Len(argv)
                    THEN pos' = pos + 2 /\ args' = args
                    ELSE /\ pos' = pos + 1
                         /\ Len(args') + Len(invalid') <= Len(args) + Len(invalid)
                                + (IF IsCluster(argv[pos]) THEN Len(argv[pos]) ELSE 1)
             /\ ~AtToken => pc' = "done" /\ pos' = pos]_vars
    /\ (pc = "parse" ~> pc = "done")

\* `-f`, `--`, `v`: the token `--` was consumed as the value of f and is not
\* the stop marker; `v` was classified after it.
C19_Witness ==
    /\ pc = "done"
    /\ argv = << <<"p">>, TokOpt, TokStop, TokPlain >>
    /\ pos = 5
    /\ GetOpt(Short("f")) = Some(TokStop)
    /\ args = <<TokPlain>>
    /\ invalid = <<>>

----------------------------------------------------------------------------
\* C20: found is monotone while parse runs.  No step of a call of parse, the
\* first or a later one on the same parser, turns the value of a Flag or the
\* found indicator of an Option or a Setting from true to false; only the
\* caller's write of false through flag() does.
C20_FoundMonotone ==
    [][(pc = "parse" \/ pc' = "parse") =>
          \A k \in DOMAIN params : Found(k) => Found(k)']_vars

\* The second call, on `-f` alone, emptied the value of f and left found
\* true from the first call, `-a -f -a`; the flag a was set by the first
\* token of that call, reset by the caller and not seen again.
C20_Witness ==
    /\ pc = "done"
    /\ argv = << <<"q">>, TokOpt >>
    /\ KindOf(params, Short("f")) = "Opt"
    /\ Found(Short("f"))
    /\ GetOpt(Short("f")) = Some(<<>>)
    /\ KindOf(params, Short("a")) = "Flag"
    /\ Count(Short("a")) = 1
    /\ ~Found(Short("a"))

====
